---------------------------- MODULE Spec2Model ----------------------------
(***************************************************************************)
(* A model of the PD client (pd-client/client.go): the timestamp batcher   *)
(* (tsLoop / processTSORequests / GetTS), the leader tracker (leaderLoop / *)
(* updateLeader / switchLeader / scheduleCheckLeader), the lookups         *)
(* (GetRegion / GetStore) and the shutdown sequence (Close).               *)
(*                                                                         *)
(* Every goroutine is a process with a program counter.  A step of the     *)
(* model is one atomic operation of the code on shared state (a channel    *)
(* send or receive, a section under c.mu, one remote call returning).      *)
(***************************************************************************)
EXTENDS Integers, Sequences, FiniteSets

(***************************************************************************)
(* Bounds of the model.                                                    *)
(***************************************************************************)
\* Number of GetTS calls made on the client.
NumCalls == 2
\* Capacity of the tsoRequests channel.  client.go:61 sets it to 10000
\* (maxMergeTSORequests); the model scales it down so that a full queue
\* is reached.
maxMergeTSORequests == 1
\* The last physical tick the PD server reaches (it starts at tick 1).
MaxPhysical == 2
\* Number of GetTS calls whose context fires during the call.
MaxCancels == 1

(***************************************************************************)
(* Program constants.                                                      *)
(***************************************************************************)
\* make(chan struct{}, 1): the capacity of checkLeaderCh.
checkLeaderChCap == 1
\* make(chan error, 1): the capacity of a tsoRequest's done channel.
doneCap == 1

Calls == 1..NumCalls

\* The addresses of the PD members; the configured urls, in order.
Addrs == {"pd1", "pd2"}
urls == <<"pd1", "pd2">>

\* Error values.  "nil" is Go's nil error.
errRPC       == "errRPC"        \* a transport error or the pdTimeout of a call
errTSOLength == "errTSOLength"
errClosing   == "errClosing"
errCtx       == "ctx.Err"       \* the caller's context error
errStore     == "errStoreNotSet"
NoAnswer     == "noAnswer"      \* an url that does not answer GetLeader

VARIABLES
    \* ---- GetTS callers
    pc,            \* pc[r]: "idle" | "send" (at line 285) | "wait" (select, 287) | "returned"
    ctxDone,       \* ctxDone[r]: the caller's ctx.Done() is closed
    ret,           \* ret[r]: what GetTS returned, [physical, logical, err]
    req,           \* req[r]: the tsoRequest's fields [physical, logical]
    done,          \* done[r]: the tsoRequest's done channel (a buffer of errors)
    \* ---- client
    tsoRequests,   \* the pending queue (a channel of requests)
    checkLeaderCh, \* number of signals buffered in checkLeaderCh
    quit,          \* the quit channel is closed
    leader,        \* c.leader
    clients,       \* c.clients: the addresses that have a handle
    \* ---- tsLoop / processTSORequests
    tsPc,          \* "select" | "snapshot" | "rpc" | "finish" | "exited"
    first,         \* the request the loop woke up on (0: none)
    pendingCount,  \* the snapshot len(c.tsoRequests)
    tsConn,        \* the handle the Tso call was issued on
    tsErr,         \* err of the batch
    tsPhysical,    \* local physical
    tsLogical,     \* local logical (decremented in the loop)
    tsI,           \* loop index i
    \* ---- leaderLoop
    leaderPc,      \* "select" | "update" | "exited"
    updateRes,     \* what the last updateLeader returned and whether an url answered
    \* ---- Close
    closePc,       \* "idle" | "wait" (wg.Wait) | "drain" | "done"
    closeN,        \* n := len(c.tsoRequests)
    closeI,        \* loop index i
    \* ---- lookups
    lookup,        \* the last lookup: [op, conn, res, sched]
    \* ---- the PD server's timestamp oracle
    srvPhysical,
    srvLogical,
    \* ---- history (not program state)
    enqOrder,      \* every request ever enqueued, in the order of enqueuing
    deqOrder,      \* every request ever dequeued, in the order of dequeuing
    batches,       \* one record per Tso call: the queue at the snapshot (first
                   \* included), the count asked for, and what the server answered
    fin,           \* fin[r]: who filled r's completion slot and with what
    scheduled      \* the GetTS calls that have invoked scheduleCheckLeader

callerVars == <<pc, ctxDone, ret>>
reqVars    == <<req, done>>
tsVars     == <<tsPc, first, pendingCount, tsConn, tsErr, tsPhysical, tsLogical, tsI>>
leaderVars == <<leader, clients, updateRes>>
closeVars  == <<closePc, closeN, closeI>>
lookupVars == <<lookup>>
srvVars    == <<srvPhysical, srvLogical>>
histVars   == <<enqOrder, deqOrder, batches, fin>>

vars == <<pc, ctxDone, ret, req, done, tsoRequests, checkLeaderCh, quit, leader,
          clients, tsPc, first, pendingCount, tsConn, tsErr, tsPhysical,
          tsLogical, tsI, leaderPc, updateRes, closePc, closeN, closeI, lookup,
          srvPhysical, srvLogical, enqOrder, deqOrder, batches, fin, scheduled>>

NoRet  == [physical |-> 0, logical |-> 0, err |-> "none"]
NoFin  == [by |-> 0, err |-> "none"]
NoLookup == [op |-> "none", conn |-> "none", res |-> "none", sched |-> FALSE]

(***************************************************************************)
(* The state after NewClient has returned: the cluster id is resolved, the *)
(* initial updateLeader has switched to the reported leader and dialed it, *)
(* both loops are started.  The addresses are interchangeable: the leader  *)
(* first reported is taken to be the first one.                            *)
(***************************************************************************)
Init ==
    /\ pc = [r \in Calls |-> "idle"]
    /\ ctxDone = [r \in Calls |-> FALSE]
    /\ ret = [r \in Calls |-> NoRet]
    /\ req = [r \in Calls |-> [physical |-> 0, logical |-> 0]]
    /\ done = [r \in Calls |-> <<>>]
    /\ tsoRequests = <<>>
    /\ checkLeaderCh = 0
    /\ quit = FALSE
    /\ leader = urls[1]
    /\ clients = {leader}
    /\ tsPc = "select"
    /\ first = 0
    /\ pendingCount = 0
    /\ tsConn = "none"
    /\ tsErr = "nil"
    /\ tsPhysical = 0
    /\ tsLogical = 0
    /\ tsI = 0
    /\ leaderPc = "select"
    /\ updateRes = [err |-> "none", answered |-> FALSE, dial |-> "none"]
    /\ closePc = "idle"
    /\ closeN = 0
    /\ closeI = 0
    /\ lookup = NoLookup
    /\ srvPhysical = 1
    /\ srvLogical = 0
    /\ enqOrder = <<>>
    /\ deqOrder = <<>>
    /\ batches = <<>>
    /\ fin = [r \in Calls |-> NoFin]
    /\ scheduled = {}

(***************************************************************************)
(* Leader tracking.                                                        *)
(***************************************************************************)
\* Mutant of scheduleCheckLeader: the send without the default branch's
\* guard, which adds a signal also when one is pending.
AlwaysSignal(ch) == ch + 1

\* Mutant of scheduleCheckLeader: the default branch is always taken (a
\* channel without a buffer, with no receiver waiting).
NeverSignal(ch) == ch

\* scheduleCheckLeader: a non-blocking send on checkLeaderCh; the default
\* branch drops the signal when the buffer is full.
scheduleCheckLeader(ch) ==
    IF ch < checkLeaderChCap THEN ch + 1 ELSE ch

\* leaderClient: the handle c.clients[c.leader], read under c.mu.RLock.
\* A handle is named by the address it was dialed for; "none" is a nil handle.
leaderClient ==
    IF leader \in clients THEN leader ELSE "none"

(***************************************************************************)
(* GetTS (client.go:278-298), one process per call.                        *)
(***************************************************************************)
\* The Client interface is not to be used after Close() has been called:
\* a call is invoked only before Close.  Calls are interchangeable, so
\* they are invoked in the order of their numbers.
GetTSInvoke(r) ==
    /\ pc[r] = "idle"
    /\ closePc = "idle"
    /\ \A q \in Calls : q < r => pc[q] # "idle"
    /\ pc' = [pc EXCEPT ![r] = "send"]
    /\ UNCHANGED <<ctxDone, ret, reqVars, tsoRequests, checkLeaderCh, quit,
                   leaderVars, tsVars, leaderPc, closeVars, lookupVars, srvVars,
                   histVars, scheduled>>

\* Mutant of CanSend: a queue without a capacity.
NoBackpressure(q) == TRUE

\* A send on the buffered channel tsoRequests proceeds only when the
\* buffer has room; otherwise the sender is suspended.
CanSend(q) == Len(q) < maxMergeTSORequests

\* c.tsoRequests <- req (line 285): a bare send, outside any select.
GetTSSend(r) ==
    /\ pc[r] = "send"
    /\ CanSend(tsoRequests)
    /\ tsoRequests' = Append(tsoRequests, r)
    /\ enqOrder' = Append(enqOrder, r)
    /\ pc' = [pc EXCEPT ![r] = "wait"]
    /\ UNCHANGED <<ctxDone, ret, reqVars, checkLeaderCh, quit, leaderVars, tsVars,
                   leaderPc, closeVars, lookupVars, srvVars, deqOrder, batches,
                   fin, scheduled>>

\* case err := <-req.done (lines 288-294).
GetTSDone(r) ==
    /\ pc[r] = "wait"
    /\ done[r] # <<>>
    /\ LET err == Head(done[r]) IN
        /\ done' = [done EXCEPT ![r] = Tail(@)]
        /\ IF err # "nil"
           THEN /\ checkLeaderCh' = scheduleCheckLeader(checkLeaderCh)
                /\ scheduled' = scheduled \cup {r}
                /\ ret' = [ret EXCEPT ![r] =
                             [physical |-> 0, logical |-> 0, err |-> err]]
           ELSE /\ UNCHANGED <<checkLeaderCh, scheduled>>
                /\ ret' = [ret EXCEPT ![r] =
                             [physical |-> req[r].physical,
                              logical |-> req[r].logical, err |-> "nil"]]
    /\ pc' = [pc EXCEPT ![r] = "returned"]
    /\ UNCHANGED <<ctxDone, req, tsoRequests, quit, leaderVars, tsVars, leaderPc,
                   closeVars, lookupVars, srvVars, histVars>>

\* case <-ctx.Done() (lines 295-296).
GetTSCtxDone(r) ==
    /\ pc[r] = "wait"
    /\ ctxDone[r]
    /\ ret' = [ret EXCEPT ![r] = [physical |-> 0, logical |-> 0, err |-> errCtx]]
    /\ pc' = [pc EXCEPT ![r] = "returned"]
    /\ UNCHANGED <<ctxDone, reqVars, tsoRequests, checkLeaderCh, quit, leaderVars,
                   tsVars, leaderPc, closeVars, lookupVars, srvVars, histVars,
                   scheduled>>

\* The caller's context fires (deadline or cancellation) during the call.
CtxFire(r) ==
    /\ pc[r] \in {"send", "wait"}
    /\ ~ctxDone[r]
    /\ Cardinality({q \in Calls : ctxDone[q]}) < MaxCancels
    /\ ctxDone' = [ctxDone EXCEPT ![r] = TRUE]
    /\ UNCHANGED <<pc, ret, reqVars, tsoRequests, checkLeaderCh, quit, leaderVars,
                   tsVars, leaderPc, closeVars, lookupVars, srvVars, histVars,
                   scheduled>>

(***************************************************************************)
(* tsLoop and processTSORequests (client.go:201-247).                      *)
(***************************************************************************)
\* Mutant of finishTSORequest: the fields are set and the send on done is
\* forgotten.
FinishWithoutSend(r, physical, logical, err, by) ==
    /\ req' = [req EXCEPT ![r] = [physical |-> physical, logical |-> logical]]
    /\ fin' = [fin EXCEPT ![r] = [by |-> by, err |-> err]]
    /\ UNCHANGED done

\* Mutant of finishTSORequest: done is made without a buffer, so the send
\* needs the caller to be receiving in its select.
FinishUnbuffered(r, physical, logical, err, by) ==
    /\ pc[r] = "wait"
    /\ req' = [req EXCEPT ![r] = [physical |-> physical, logical |-> logical]]
    /\ done' = [done EXCEPT ![r] = Append(@, err)]
    /\ fin' = [fin EXCEPT ![r] = [by |-> by, err |-> err]]

\* finishTSORequest (lines 244-247): sets the request's fields and sends
\* err on its done channel; the send is suspended while the buffer is full.
\* by: the number of the batch (history).
finishTSORequest(r, physical, logical, err, by) ==
    /\ Len(done[r]) < doneCap
    /\ req' = [req EXCEPT ![r] = [physical |-> physical, logical |-> logical]]
    /\ done' = [done EXCEPT ![r] = Append(@, err)]
    /\ fin' = [fin EXCEPT ![r] = [by |-> by, err |-> err]]

\* case first := <-c.tsoRequests (line 206).  The select takes any ready
\* case, so the receive may be taken also when quit is closed.
TsRecv ==
    /\ tsPc = "select"
    /\ tsoRequests # <<>>
    /\ first' = Head(tsoRequests)
    /\ tsoRequests' = Tail(tsoRequests)
    /\ deqOrder' = Append(deqOrder, Head(tsoRequests))
    /\ tsPc' = "snapshot"
    /\ UNCHANGED <<callerVars, reqVars, checkLeaderCh, quit, leaderVars,
                   pendingCount, tsConn, tsErr, tsPhysical, tsLogical, tsI,
                   leaderPc, closeVars, lookupVars, srvVars, enqOrder, batches,
                   fin, scheduled>>

\* case <-c.quit: return (lines 208-209), then wg.Done.
TsQuit ==
    /\ tsPc = "select"
    /\ quit
    /\ tsPc' = "exited"
    /\ UNCHANGED <<callerVars, reqVars, tsoRequests, checkLeaderCh, quit,
                   leaderVars, first, pendingCount, tsConn, tsErr, tsPhysical,
                   tsLogical, tsI, leaderPc, closeVars, lookupVars, srvVars,
                   histVars, scheduled>>

\* pendingCount := len(c.tsoRequests) and the Tso call with
\* Count = pendingCount + 1 issued on c.leaderClient() (lines 218-222).
TsSnapshot ==
    /\ tsPc = "snapshot"
    /\ pendingCount' = Len(tsoRequests)
    /\ tsConn' = leaderClient
    /\ batches' = Append(batches,
                    [snap |-> <<first>> \o tsoRequests,
                     count |-> Len(tsoRequests) + 1,
                     rpcErr |-> "pending", respCount |-> 0,
                     physical |-> 0, logical |-> 0])
    /\ tsPc' = "rpc"
    /\ UNCHANGED <<callerVars, reqVars, tsoRequests, checkLeaderCh, quit,
                   leaderVars, first, tsErr, tsPhysical, tsLogical, tsI,
                   leaderPc, closeVars, lookupVars, srvVars, enqOrder, deqOrder,
                   fin, scheduled>>

\* Mutant of CheckCount: the count of the response is not looked at.
IgnoreCount(err, respCount, count) == err

\* Lines 225-227: a response whose count differs from the count asked for
\* is an error.
CheckCount(err, respCount, count) ==
    IF err = "nil" /\ respCount # count THEN errTSOLength ELSE err

\* Mutants of NextLogical: no decrement; a decrement by two.
KeepLogical(logical) == logical
SkipLogical(logical) == logical - 2

\* logical-- (line 239).
NextLogical(logical) == logical - 1

\* The loop condition i < pendingCount (lines 230, 238) once i has been
\* incremented: TRUE when the loop goes on.
OneMore(i, n) == i <= n

MoreInBatch(i, n) == i < n

\* processTSORequests returns to tsLoop's select; its locals are gone.
TsReturn ==
    /\ tsPc' = "select"
    /\ pendingCount' = 0
    /\ tsErr' = "nil"
    /\ tsPhysical' = 0
    /\ tsLogical' = 0
    /\ tsI' = 0

\* The Tso call returns (lines 219-237, up to finishing first).  The
\* server either does not answer in time (a transport error or the
\* pdTimeout), or allocates respCount logical values under one physical
\* tick, which may have advanced, and answers with the highest of them.
TsResp ==
    /\ tsPc = "rpc"
    /\ \E rpcErr \in {"nil", errRPC} :
       \E respCount \in {pendingCount, pendingCount + 1} :
       \E tick \in {0, 1} :
        /\ rpcErr = errRPC => respCount = pendingCount + 1 /\ tick = 0
        /\ srvPhysical + tick <= MaxPhysical
        /\ LET p   == srvPhysical + tick
               hi  == (IF tick = 1 THEN 0 ELSE srvLogical) + respCount
               err == CheckCount(rpcErr, respCount, pendingCount + 1)
               b   == Len(batches)
           IN
            /\ IF rpcErr = "nil"
               THEN srvPhysical' = p /\ srvLogical' = hi
               ELSE UNCHANGED srvVars
            /\ batches' = [batches EXCEPT ![b] =
                             [@ EXCEPT !.rpcErr = rpcErr,
                                       !.respCount = IF rpcErr = "nil" THEN respCount ELSE 0,
                                       !.physical = IF rpcErr = "nil" THEN p ELSE 0,
                                       !.logical = IF rpcErr = "nil" THEN hi ELSE 0]]
            /\ IF err # "nil"
               THEN finishTSORequest(first, 0, 0, err, b)
               ELSE finishTSORequest(first, p, hi, "nil", b)
            /\ IF MoreInBatch(0, pendingCount)
               THEN /\ tsPc' = "finish"
                    /\ tsErr' = err
                    /\ tsPhysical' = IF err = "nil" THEN p ELSE 0
                    /\ tsLogical' = IF err = "nil" THEN hi ELSE 0
                    /\ tsI' = 0
                    /\ UNCHANGED pendingCount
               ELSE TsReturn
    /\ first' = 0
    /\ tsConn' = "none"
    /\ UNCHANGED <<callerVars, tsoRequests, checkLeaderCh, quit, leaderVars,
                   leaderPc, closeVars, lookupVars, enqOrder, deqOrder, scheduled>>

\* One iteration of the loop of lines 230-232 (failure) or 238-241
\* (success): receive the next request and finish it.
TsFinishNext ==
    /\ tsPc = "finish"
    /\ tsoRequests # <<>>
    /\ LET r == Head(tsoRequests) IN
        /\ tsoRequests' = Tail(tsoRequests)
        /\ deqOrder' = Append(deqOrder, r)
        /\ IF tsErr # "nil"
           THEN finishTSORequest(r, 0, 0, tsErr, Len(batches))
           ELSE finishTSORequest(r, tsPhysical, NextLogical(tsLogical), "nil",
                                 Len(batches))
    /\ IF MoreInBatch(tsI + 1, pendingCount)
       THEN /\ tsI' = tsI + 1
            /\ tsLogical' = IF tsErr # "nil" THEN tsLogical
                            ELSE NextLogical(tsLogical)
            /\ UNCHANGED <<tsPc, pendingCount, tsErr, tsPhysical>>
       ELSE TsReturn
    /\ UNCHANGED <<callerVars, checkLeaderCh, quit, leaderVars, first, tsConn,
                   leaderPc, closeVars, lookupVars, srvVars, enqOrder, batches,
                   scheduled>>

(***************************************************************************)
(* leaderLoop, updateLeader, switchLeader (client.go:139-199).             *)
(***************************************************************************)
\* The loop of updateLeader over c.urls (lines 140-148): the answer of the
\* first url, from the i-th on, that answers GetLeader; NoAnswer if none.
FirstUrlOnly(ans, i) == ans[i]

RECURSIVE FirstAnswer(_, _)
FirstAnswer(ans, i) ==
    IF i > Len(urls) THEN NoAnswer
    ELSE IF ans[i] # NoAnswer THEN ans[i]
    ELSE FirstAnswer(ans, i + 1)

\* Whether some url of c.urls answers GetLeader (the loop of lines 140-148
\* does not "continue" for it).
SomeAnswer(ans) == \E i \in 1..Len(urls) : ans[i] # NoAnswer

\* switchLeader (lines 162-182), under c.mu.Lock: the handle of addr is
\* dialed if the registry has none (lines 172-178); a failed dial returns
\* before anything is written (lines 175-177); c.leader = addr comes last
\* (line 180).  The result is the error and the two fields as the unlock
\* leaves them; dial is what became of grpc.Dial.
SwitchBeforeDial(addr, dialOk) ==
    IF addr \notin clients /\ ~dialOk
    THEN [err |-> "errDial", dial |-> "failed", leader |-> addr,
          clients |-> clients]
    ELSE [err |-> "nil",
          dial |-> IF addr \in clients THEN "none" ELSE "ok",
          leader |-> addr, clients |-> clients \cup {addr}]

switchLeader(addr, dialOk) ==
    IF addr \notin clients /\ ~dialOk
    THEN [err |-> "errDial", dial |-> "failed", leader |-> leader,
          clients |-> clients]
    ELSE [err |-> "nil",
          dial |-> IF addr \in clients THEN "none" ELSE "ok",
          leader |-> addr, clients |-> clients \cup {addr}]

\* What the loop does after updateLeader returned err (lines 195-197): the
\* error is logged and the loop goes back to its select.
ExitOnError(err) == IF err = "nil" THEN "select" ELSE "exited"

AfterUpdate(err) == "select"

\* case <-c.checkLeaderCh (line 189): the signal is received, the channel
\* is empty again before updateLeader starts.
LeaderWakeSignal ==
    /\ leaderPc = "select"
    /\ checkLeaderCh > 0
    /\ checkLeaderCh' = checkLeaderCh - 1
    /\ leaderPc' = "update"
    /\ UNCHANGED <<callerVars, reqVars, tsoRequests, quit, leaderVars, tsVars,
                   closeVars, lookupVars, srvVars, histVars, scheduled>>

\* case <-time.After(time.Minute) (line 190).
LeaderWakeTimer ==
    /\ leaderPc = "select"
    /\ leaderPc' = "update"
    /\ UNCHANGED <<callerVars, reqVars, tsoRequests, checkLeaderCh, quit,
                   leaderVars, tsVars, closeVars, lookupVars, srvVars,
                   histVars, scheduled>>

\* The two cases of the select of lines 188-193 that run updateLeader.
LeaderWake ==
    \/ LeaderWakeSignal
    \/ LeaderWakeTimer

\* case <-c.quit: return (lines 191-192), then wg.Done.
LeaderQuit ==
    /\ leaderPc = "select"
    /\ quit
    /\ leaderPc' = "exited"
    /\ UNCHANGED <<callerVars, reqVars, tsoRequests, checkLeaderCh, quit,
                   leaderVars, tsVars, closeVars, lookupVars, srvVars, histVars,
                   scheduled>>

\* updateLeader (lines 139-160) with switchLeader (lines 162-182), run by
\* the loop at line 195.  ans[i] is what the i-th url answers to
\* GetLeader; dialOk is whether grpc.Dial succeeds, should switchLeader
\* have to dial.  updateRes keeps the error returned, whether a url
\* answered, and what became of the dial.
LeaderUpdate ==
    /\ leaderPc = "update"
    /\ \E ans \in [1..Len(urls) -> Addrs \cup {NoAnswer}] :
       \E dialOk \in BOOLEAN :
        LET addr == FirstAnswer(ans, 1) IN
        IF addr = NoAnswer
        THEN /\ updateRes' = [err |-> "errNoLeader",
                              answered |-> SomeAnswer(ans), dial |-> "none"]
             /\ UNCHANGED <<leader, clients>>
             /\ leaderPc' = AfterUpdate("errNoLeader")
        ELSE IF leader = addr
        THEN /\ updateRes' = [err |-> "nil", answered |-> SomeAnswer(ans),
                              dial |-> "none"]
             /\ UNCHANGED <<leader, clients>>
             /\ leaderPc' = AfterUpdate("nil")
        ELSE LET sw == switchLeader(addr, dialOk) IN
             /\ clients' = sw.clients
             /\ leader' = sw.leader
             /\ updateRes' = [err |-> sw.err, answered |-> SomeAnswer(ans),
                              dial |-> sw.dial]
             /\ leaderPc' = AfterUpdate(sw.err)
    /\ UNCHANGED <<callerVars, reqVars, tsoRequests, checkLeaderCh, quit, tsVars,
                   closeVars, lookupVars, srvVars, histVars, scheduled>>

(***************************************************************************)
(* GetRegion and GetStore (client.go:300-339): one remote call on the      *)
(* leader's handle.                                                        *)
(***************************************************************************)
GetRegion ==
    /\ closePc = "idle"
    /\ \E res \in {"ok", errRPC} :
        /\ lookup' = [op |-> "GetRegion", conn |-> leaderClient, res |-> res,
                       sched |-> (res = errRPC)]
        /\ IF res = errRPC
           THEN checkLeaderCh' = scheduleCheckLeader(checkLeaderCh)
           ELSE UNCHANGED checkLeaderCh
    /\ UNCHANGED <<callerVars, reqVars, tsoRequests, quit, leaderVars, tsVars,
                   leaderPc, closeVars, srvVars, histVars, scheduled>>

\* The response is a store ("ok"), a tombstone store (nil, nil is
\* returned), no store (an error), or the call fails.
GetStore ==
    /\ closePc = "idle"
    /\ \E res \in {"ok", "tombstone", errStore, errRPC} :
        /\ lookup' = [op |-> "GetStore", conn |-> leaderClient, res |-> res,
                       sched |-> (res = errRPC)]
        /\ IF res = errRPC
           THEN checkLeaderCh' = scheduleCheckLeader(checkLeaderCh)
           ELSE UNCHANGED checkLeaderCh
    /\ UNCHANGED <<callerVars, reqVars, tsoRequests, quit, leaderVars, tsVars,
                   leaderPc, closeVars, srvVars, histVars, scheduled>>

(***************************************************************************)
(* Close (client.go:249-258).                                              *)
(***************************************************************************)
\* close(c.quit) (line 250).
CloseQuit ==
    /\ closePc = "idle"
    /\ quit' = TRUE
    /\ closePc' = "wait"
    /\ UNCHANGED <<callerVars, reqVars, tsoRequests, checkLeaderCh, leaderVars,
                   tsVars, leaderPc, closeN, closeI, lookupVars, srvVars,
                   histVars, scheduled>>

\* c.wg.Wait() (line 252) returns once both loops have called wg.Done
\* (lines 185 and 202).
NoJoin == TRUE

WgWait == tsPc = "exited" /\ leaderPc = "exited"

\* c.wg.Wait() has returned; n := len(c.tsoRequests) (lines 252-253).
CloseWait ==
    /\ closePc = "wait"
    /\ WgWait
    /\ closeN' = Len(tsoRequests)
    /\ closeI' = 0
    /\ closePc' = IF 0 < Len(tsoRequests) THEN "drain" ELSE "done"
    /\ UNCHANGED <<callerVars, reqVars, tsoRequests, checkLeaderCh, quit,
                   leaderVars, tsVars, leaderPc, lookupVars, srvVars, histVars,
                   scheduled>>

\* One iteration of the loop of lines 254-257.
CloseDrain ==
    /\ closePc = "drain"
    /\ tsoRequests # <<>>
    /\ LET r == Head(tsoRequests) IN
        /\ Len(done[r]) < doneCap
        /\ tsoRequests' = Tail(tsoRequests)
        /\ deqOrder' = Append(deqOrder, r)
        /\ done' = [done EXCEPT ![r] = Append(@, errClosing)]
        /\ fin' = [fin EXCEPT ![r] = [by |-> -1, err |-> errClosing]]
    /\ closeI' = closeI + 1
    /\ closePc' = IF closeI + 1 < closeN THEN "drain" ELSE "done"
    /\ UNCHANGED <<callerVars, req, checkLeaderCh, quit, leaderVars, tsVars,
                   leaderPc, closeN, lookupVars, srvVars, enqOrder, batches,
                   scheduled>>

(***************************************************************************)
(* The specification.                                                      *)
(***************************************************************************)
\* GetTS calls.
CallerNext ==
    \/ \E r \in Calls : GetTSInvoke(r)
    \/ \E r \in Calls : GetTSSend(r)
    \/ \E r \in Calls : GetTSDone(r)
    \/ \E r \in Calls : GetTSCtxDone(r)
    \/ \E r \in Calls : CtxFire(r)

\* The batcher goroutine.
BatcherNext ==
    \/ TsRecv
    \/ TsSnapshot
    \/ TsResp
    \/ TsFinishNext

\* The leader goroutine.
LeaderNext ==
    \/ LeaderWake
    \/ LeaderUpdate

\* The lookups.
LookupNext ==
    \/ GetRegion
    \/ GetStore

\* Close and the exit of the two goroutines on quit.
CloseNext ==
    \/ CloseQuit
    \/ TsQuit
    \/ LeaderQuit
    \/ CloseWait
    \/ CloseDrain

Next ==
    \/ CallerNext
    \/ BatcherNext
    \/ LeaderNext
    \/ LookupNext
    \/ CloseNext

Spec == Init /\ [][Next]_vars

\* The timestamp engine and the shutdown: the leader goroutine only waits
\* for quit and no lookup is made.  The actions left out write leader,
\* clients, updateRes, checkLeaderCh, leaderPc and lookup only, and no
\* action of this specification reads what they write, but for leaderPc.
NextTso ==
    \/ CallerNext
    \/ BatcherNext
    \/ CloseNext

SpecTso == Init /\ [][NextTso]_vars


\* The leader recheck: the GetTS calls (no context fires), the batcher
\* and the leader goroutine, on a client that is not closed.
NextRecheck ==
    \/ \E r \in Calls : GetTSInvoke(r)
    \/ \E r \in Calls : GetTSSend(r)
    \/ \E r \in Calls : GetTSDone(r)
    \/ BatcherNext
    \/ LeaderNext

SpecRecheck == Init /\ [][NextRecheck]_vars

\* A step of a GetTS call that has been invoked: its send, or a case of
\* its select.
CallerProgress ==
    \E r \in Calls : GetTSSend(r) \/ GetTSDone(r) \/ GetTSCtxDone(r)

\* The timestamp engine on a client that is never closed, with the
\* scheduling the Go runtime gives: the batcher goroutine goes on whenever
\* it can (every Tso call returns, with a response, an error or its
\* pdTimeout), and the callers are not all held for ever while one of
\* them can go on (less than the runtime gives each goroutine).
NextLive ==
    \/ CallerNext
    \/ BatcherNext

SpecLive ==
    /\ Init
    /\ [][NextLive]_vars
    /\ WF_vars(BatcherNext)
    /\ WF_vars(CallerProgress)

\* The leader side on a client that is not closed: the leader goroutine,
\* the lookups and one GetTS call (the first, whose context does not
\* fire), which read the leader's handle and schedule the recheck.  The
\* batch of the one call is its request alone, so TsFinishNext is never
\* enabled and is left out.
NextLeader ==
    \/ LeaderNext
    \/ LookupNext
    \/ GetTSInvoke(1)
    \/ GetTSSend(1)
    \/ GetTSDone(1)
    \/ TsRecv
    \/ TsSnapshot
    \/ TsResp

SpecLeader == Init /\ [][NextLeader]_vars

\* The same with the scheduling the Go runtime gives the leader goroutine:
\* updateLeader returns (every http query and every dial has a timeout),
\* and a select that finds a signal in checkLeaderCh again and again does
\* not choose another case for ever (the runtime chooses uniformly among
\* the ready cases).
SpecLeaderLive ==
    /\ Init
    /\ [][NextLeader]_vars
    /\ WF_vars(LeaderUpdate)
    /\ SF_vars(LeaderWakeSignal)

(***************************************************************************)
(* Notions the properties are stated with.                                 *)
(***************************************************************************)
InSeq(seq, x) == \E i \in 1..Len(seq) : seq[i] = x
Pos(seq, x) == CHOOSE i \in 1..Len(seq) : seq[i] = x
Elems(seq) == {seq[i] : i \in 1..Len(seq)}

\* The GetTS call r has returned a timestamp.
GotTS(r) == pc[r] = "returned" /\ ret[r].err = "nil"
Pair(r) == <<ret[r].physical, ret[r].logical>>
LexLeq(a, b) == a[1] < b[1] \/ (a[1] = b[1] /\ a[2] <= b[2])

\* The requests whose completion slot batch b has filled so far, and the
\* place of r among them in dequeue order (0 for the first).
FilledBy(b) == {r \in Calls : fin[r].by = b}
BatchIndex(r) ==
    Cardinality({q \in FilledBy(fin[r].by) : Pos(deqOrder, q) < Pos(deqOrder, r)})

\* Batch b's Tso call has returned; it has failed; it has succeeded.
Answered(b) == batches[b].rpcErr # "pending"
BatchFailed(b) ==
    Answered(b) /\ (batches[b].rpcErr # "nil" \/ batches[b].respCount # batches[b].count)
BatchOk(b) ==
    Answered(b) /\ batches[b].rpcErr = "nil" /\ batches[b].respCount = batches[b].count
\* The error of a failed batch.
BatchErr(b) ==
    IF batches[b].rpcErr # "nil" THEN batches[b].rpcErr ELSE errTSOLength
\* processTSORequests has returned from batch b.
BatchOver(b) ==
    Answered(b) /\ (b < Len(batches) \/ tsPc \in {"select", "snapshot", "exited"})

(***************************************************************************)
(* C1.  Global ordering: of two GetTS calls that both return a timestamp,  *)
(* the one whose request was enqueued first returns a pair that is         *)
(* lexicographically less than or equal to the other's.  The code does not *)
(* have this property: within a batch the earlier request gets the higher  *)
(* logical value.                                                          *)
(***************************************************************************)
C1_GlobalOrder ==
    \A a, b \in Calls :
        (/\ GotTS(a) /\ GotTS(b)
         /\ InSeq(enqOrder, a) /\ InSeq(enqOrder, b)
         /\ Pos(enqOrder, a) < Pos(enqOrder, b))
        => LexLeq(Pair(a), Pair(b))

(***************************************************************************)
(* C2.  Uniqueness: no two GetTS calls return the same (physical, logical) *)
(* pair.                                                                   *)
(***************************************************************************)
C2_Unique ==
    \A a, b \in Calls :
        (a # b /\ GotTS(a) /\ GotTS(b)) => Pair(a) # Pair(b)

\* Two calls served by one batch, and two calls served by two batches under
\* the same physical tick, have returned timestamps.
C2_Witness ==
    /\ \E a, b \in Calls :
        /\ a # b /\ GotTS(a) /\ GotTS(b)
        /\ ret[a].physical = ret[b].physical
    /\ Len(batches) >= 1

(***************************************************************************)
(* C3.  Fan-out by decrement: when the Tso call of a batch succeeds with   *)
(* (physical, logicalMax), the i-th request of the batch in dequeue order  *)
(* (i = 0 for first) is given exactly (physical, logicalMax - i), that is  *)
(* what its caller returns, and once the batch is over as many requests    *)
(* as were asked for have been given a value.                              *)
(***************************************************************************)
C3_FanOut ==
    \A b \in 1..Len(batches) :
        BatchOk(b) =>
            /\ \A r \in FilledBy(b) :
                /\ fin[r].err = "nil"
                /\ req[r].physical = batches[b].physical
                /\ req[r].logical = batches[b].logical - BatchIndex(r)
                /\ GotTS(r) => Pair(r) = <<batches[b].physical,
                                           batches[b].logical - BatchIndex(r)>>
            /\ BatchOver(b) => Cardinality(FilledBy(b)) = batches[b].count

\* A successful batch of two requests is over and both callers have
\* returned, the second with the lower value.
C3_Witness ==
    \E b \in 1..Len(batches) :
        /\ BatchOk(b) /\ BatchOver(b)
        /\ batches[b].count = 2
        /\ \A r \in FilledBy(b) : GotTS(r)
        /\ \E r \in FilledBy(b) : ret[r].logical = batches[b].logical - 1

(***************************************************************************)
(* C4.  A batch failure is batch-scoped and total: when the Tso call of a  *)
(* batch fails or answers with a count other than the k+1 asked for, each  *)
(* request whose slot the batch fills gets the same error and the          *)
(* timestamp (0, 0), its caller returns that error and no timestamp; once  *)
(* the batch is over these requests are exactly the k+1 of the snapshot    *)
(* (none enqueued later); and the loop goes on: it exits on quit only.     *)
(***************************************************************************)
C4_BatchFailure ==
    /\ \A b \in 1..Len(batches) :
        BatchFailed(b) =>
            /\ \A r \in FilledBy(b) :
                /\ fin[r].err = BatchErr(b)
                /\ req[r].physical = 0 /\ req[r].logical = 0
                /\ done[r] \in {<<>>, <<BatchErr(b)>>}
                /\ pc[r] = "returned" =>
                     /\ ret[r].err \in {BatchErr(b), errCtx}
                     /\ ret[r].physical = 0 /\ ret[r].logical = 0
            /\ FilledBy(b) \subseteq Elems(batches[b].snap)
            /\ BatchOver(b) => FilledBy(b) = Elems(batches[b].snap)
    /\ \A b \in 1..Len(batches) : Cardinality(Elems(batches[b].snap)) = batches[b].count
    /\ tsPc = "exited" => quit

\* A batch has failed with a request enqueued after its snapshot, and a
\* later batch has given that request a timestamp, which its caller returned.
C4_Witness ==
    \E b1, b2 \in 1..Len(batches) :
        /\ b1 < b2
        /\ BatchFailed(b1) /\ BatchOk(b2)
        /\ \E r \in FilledBy(b1) : pc[r] = "returned" /\ ret[r].err = BatchErr(b1)
        /\ \E r \in FilledBy(b2) : GotTS(r) /\ r \notin Elems(batches[b1].snap)

(***************************************************************************)
(* C5.  Shutdown drains: once Close has returned, every request that was   *)
(* enqueued and not served by a batch has been given errClosing, and no    *)
(* GetTS caller is blocked.  The code does not have this property: a call  *)
(* that enqueues after Close has taken len(c.tsoRequests) is left in the   *)
(* queue.                                                                  *)
(***************************************************************************)
C5_ShutdownDrains ==
    closePc = "done" =>
        /\ \A r \in Calls :
            (InSeq(enqOrder, r) /\ fin[r].by < 1) => fin[r].err = errClosing
        /\ \A r \in Calls :
            pc[r] = "wait" => (done[r] # <<>> \/ ctxDone[r])

(***************************************************************************)
(* C6.  Eventual delivery: on a client that is never closed, with a fairly *)
(* scheduled batcher whose Tso calls all return, every GetTS call that     *)
(* has been invoked leads to a state in which its request has been         *)
(* enqueued, a batch has filled its completion slot, and the call has      *)
(* returned.                                                               *)
(***************************************************************************)
C6_EventualDelivery ==
    \A r \in Calls :
        (pc[r] = "send") ~>
            (InSeq(enqOrder, r) /\ fin[r].by >= 1 /\ pc[r] = "returned")

\* Every call has returned, one of them after having found the queue full
\* (it was enqueued when another request had been dequeued), and one with
\* a timestamp.
C6_Witness ==
    /\ \A r \in Calls : pc[r] = "returned"
    /\ \E r \in Calls : GotTS(r)
    /\ \E r \in Calls : ret[r].err \in {errRPC, errTSOLength}

(***************************************************************************)
(* C7.  Every remote-call failure triggers a leader recheck: a lookup that *)
(* failed has invoked scheduleCheckLeader, and for every failed batch,     *)
(* once the batch is over and the callers of its requests have returned,   *)
(* scheduleCheckLeader has been invoked because of it.  The code does not  *)
(* have this property: processTSORequests never invokes it, only a caller  *)
(* that reads the error from its completion slot does.                     *)
(***************************************************************************)
C7_FailureSchedulesRecheck ==
    /\ lookup.res = errRPC => lookup.sched
    /\ \A b \in 1..Len(batches) :
        (/\ BatchFailed(b) /\ BatchOver(b)
         /\ \A r \in Elems(batches[b].snap) : pc[r] = "returned")
        => \E r \in Elems(batches[b].snap) : r \in scheduled

(***************************************************************************)
(* C8.  Recheck coalescing: at most one recheck signal is pending; a       *)
(* caller that has an error to read from its completion slot is never      *)
(* held up by scheduleCheckLeader; and every invocation leaves exactly one *)
(* signal pending, so one made while a signal is pending changes nothing.  *)
(***************************************************************************)
C8_Coalescing ==
    /\ [](checkLeaderCh \in 0..checkLeaderChCap)
    /\ [](\A r \in Calls :
            (pc[r] = "wait" /\ done[r] # <<>>) => ENABLED GetTSDone(r))
    /\ [][scheduled' # scheduled => checkLeaderCh' = checkLeaderChCap]_vars

\* Two callers have invoked scheduleCheckLeader and one signal is pending.
C8_Witness ==
    /\ Cardinality(scheduled) >= 2
    /\ checkLeaderCh = checkLeaderChCap
    /\ leaderPc = "select"

C10_RespectsDeadline ==
    \A r \in Calls :
        (/\ ctxDone[r]
         /\ \/ pc[r] = "send" /\ ~CanSend(tsoRequests)
            \/ pc[r] = "wait")
        => ENABLED GetTSCtxDone(r)

(***************************************************************************)
(* C11: the leader is switched atomically.  In every reachable state one   *)
(* address is the current leader and the registry holds a handle for it,   *)
(* so leaderClient returns that address's handle, never a missing one; a   *)
(* switch leaves the new leader with a handle in the same step; and every  *)
(* remote call that reads the leader's handle (a lookup, the Tso call of a *)
(* batch) is issued on the handle of the leader of that moment.            *)
(***************************************************************************)
C11_LeaderAtomic ==
    /\ [](leader \in Addrs /\ leader \in clients /\ leaderClient = leader)
    /\ [][leader' # leader => leader' \in clients' /\ clients \subseteq clients']_vars
    /\ [][lookup' # lookup => lookup'.conn = leader]_vars
    /\ [][tsPc = "snapshot" /\ tsPc' = "rpc" => tsConn' = leader]_vars

\* The leader has been switched to pd2, a lookup was issued on pd2's
\* handle and the Tso call in flight was issued on it too.
C11_Witness ==
    /\ leader = "pd2"
    /\ lookup.op # "none"
    /\ lookup.conn = "pd2"
    /\ tsPc = "rpc"
    /\ tsConn = "pd2"

(***************************************************************************)
(* C12 as stated: updateLeader returns an error only if no url of the      *)
(* list answers the leader query; whenever a url answers, it returns       *)
(* success.                                                                *)
(***************************************************************************)
C12_ErrorOnlyIfNoAnswer ==
    updateRes.answered => updateRes.err = "nil"

(***************************************************************************)
(* C12, amended: updateLeader returns an error only if no url answers the  *)
(* leader query, or a url answers with a leader other than the current one *)
(* that has no handle yet and the dial of its handle fails.  In every run  *)
(* in which a url answers and no dial fails it returns success, whether or *)
(* not the reported leader differs from the current one.                   *)
(***************************************************************************)
C12_ErrorOnlyIfNoAnswerOrDialFails ==
    updateRes.err # "none" =>
        /\ updateRes.err = "nil"
              <=> (updateRes.answered /\ updateRes.dial # "failed")
        /\ updateRes.err = "errNoLeader" <=> ~updateRes.answered
        /\ updateRes.err = "errDial" <=> updateRes.dial = "failed"

\* updateLeader has returned success after a url reported pd2, a leader
\* other than the current one, whose handle was dialed.
C12_Witness ==
    /\ updateRes.err = "nil"
    /\ updateRes.answered
    /\ updateRes.dial = "ok"
    /\ leader = "pd2"

\* The snapshots of the batches 1..b, one after the other.
RECURSIVE SnapsUpTo(_)
SnapsUpTo(b) == IF b = 0 THEN <<>> ELSE SnapsUpTo(b - 1) \o batches[b].snap

(***************************************************************************)
(* C13: a batch is composed by snapshot.  The batch is the request the     *)
(* consumer woke up on and the k requests in the queue when its length was *)
(* read, which are the k+1 oldest requests not yet served, in enqueue      *)
(* order; its Tso call asks for k+1 timestamps; the batch completes        *)
(* requests of its snapshot only, all of them once it is over; a request   *)
(* that is in the queue behind the k snapshot requests while the batch     *)
(* runs is not of the batch.                                               *)
(***************************************************************************)
C13_BatchBySnapshot ==
    \A b \in 1..Len(batches) :
        LET snap == batches[b].snap IN
        /\ batches[b].count = Len(snap)
        /\ Len(SnapsUpTo(b)) <= Len(enqOrder)
        /\ snap = SubSeq(enqOrder, Len(SnapsUpTo(b - 1)) + 1, Len(SnapsUpTo(b)))
        /\ FilledBy(b) \subseteq Elems(snap)
        /\ BatchOver(b) => FilledBy(b) = Elems(snap)
        /\ (b = Len(batches) /\ tsPc = "rpc") =>
              /\ batches[b].count = pendingCount + 1
              /\ \A i \in 1..Len(tsoRequests) :
                    i > pendingCount => tsoRequests[i] \notin Elems(snap)

\* The second call's request was enqueued after the snapshot of the batch
\* of the first: it was left to a second batch, which is over.
C13_Witness ==
    /\ Len(batches) = 2
    /\ batches[1].count = 1
    /\ BatchOver(2)
    /\ FilledBy(1) = {1}
    /\ FilledBy(2) = {2}

\* The pair that was written into the request r.
Given(r) == <<req[r].physical, req[r].logical>>

(***************************************************************************)
(* C14: monotonicity across batches.  The batcher issues the Tso call of a *)
(* batch after the call of the batch before has returned; every timestamp  *)
(* a successful batch gives lies in the range the server allocated for its *)
(* call (the count values that end at the reported logical maximum, under  *)
(* the reported physical); hence, of two successful batches, every pair    *)
(* given and returned by the later one is lexicographically greater than   *)
(* or equal to every pair given and returned by the earlier one.           *)
(***************************************************************************)
C14_CrossBatchMonotone ==
    /\ \A b \in 1..Len(batches) : b < Len(batches) => Answered(b)
    /\ \A b \in 1..Len(batches) :
        BatchOk(b) =>
            \A r \in FilledBy(b) :
                /\ req[r].physical = batches[b].physical
                /\ req[r].logical <= batches[b].logical
                /\ req[r].logical > batches[b].logical - batches[b].count
    /\ \A b1, b2 \in 1..Len(batches) :
        (b1 < b2 /\ BatchOk(b1) /\ BatchOk(b2)) =>
            \A r1 \in FilledBy(b1), r2 \in FilledBy(b2) :
                /\ LexLeq(Given(r1), Given(r2))
                /\ (GotTS(r1) /\ GotTS(r2)) => LexLeq(Pair(r1), Pair(r2))

\* Two successful batches under one physical tick, whose callers have
\* returned: the later batch's logical value is the greater.
C14_Witness ==
    \E r1, r2 \in Calls :
        /\ fin[r1].by = 1 /\ fin[r2].by = 2
        /\ BatchOk(1) /\ BatchOk(2)
        /\ GotTS(r1) /\ GotTS(r2)
        /\ ret[r1].physical = ret[r2].physical
        /\ ret[r1].logical < ret[r2].logical

\* The GetTS call r has returned its context's error.
Cancelled(r) == pc[r] = "returned" /\ ret[r].err = errCtx

(***************************************************************************)
(* C15: a cancellation leaks the request and never blocks the batcher.  A  *)
(* call whose context fires while it waits for its request returns at once *)
(* with the context's error, and its return leaves the queue and the       *)
(* request as they are.  The request stays in the queue at its place, is   *)
(* counted by the batch that takes it, and its slot is filled by that      *)
(* batch (or by Close) with a value that stays in the slot, unread.  The   *)
(* batcher is never held filling a slot: while it has requests of its      *)
(* batch to complete, its next step is enabled.  The other requests of the *)
(* batch are given the value of their place in the batch, the cancelled    *)
(* request counted.                                                        *)
(***************************************************************************)
C15_LeakNoDeadlock ==
    /\ [](\A r \in Calls :
            (pc[r] = "wait" /\ ctxDone[r]) => ENABLED GetTSCtxDone(r))
    /\ [][\A r \in Calls :
            (pc[r] = "wait" /\ pc'[r] = "returned" /\ ret'[r].err = errCtx)
                => /\ tsoRequests' = tsoRequests
                   /\ req' = req /\ done' = done
                   /\ first = r \/ InSeq(tsoRequests, r) \/ fin[r].by # 0]_vars
    /\ [](\A r \in Calls :
            (Cancelled(r) /\ fin[r].by # 0) => done[r] = <<fin[r].err>>)
    /\ [](\A b \in 1..Len(batches) :
            \A r \in Elems(batches[b].snap) :
                (Cancelled(r) /\ BatchOver(b)) => fin[r].by = b)
    /\ [](tsPc = "rpc" => ENABLED TsResp)
    /\ [](tsPc = "finish" => ENABLED TsFinishNext)
    /\ [](\A b \in 1..Len(batches) :
            (BatchOk(b) /\ \E c \in FilledBy(b) : Cancelled(c)) =>
                \A r \in FilledBy(b) :
                    /\ Given(r) = <<batches[b].physical,
                                    batches[b].logical - BatchIndex(r)>>
                    /\ GotTS(r) => Pair(r) = Given(r))

\* A call returned its context's error while its request was queued; a
\* later successful batch of two took the request, gave it a timestamp
\* that nobody reads, and the other call of the batch returned its own.
C15_Witness ==
    \E r, q \in Calls :
        /\ r # q
        /\ Cancelled(r)
        /\ fin[r].by >= 1 /\ fin[r].err = "nil"
        /\ done[r] = <<"nil">>
        /\ req[r].logical > 0
        /\ fin[q].by = fin[r].by
        /\ GotTS(q)

\* The request at the head of the queue has not been completed.
HeadUnwritten ==
    tsoRequests # <<>> =>
        /\ fin[Head(tsoRequests)] = NoFin
        /\ done[Head(tsoRequests)] = <<>>

(***************************************************************************)
(* C16: exactly-once fulfilment.  The completion slot of a request is      *)
(* written at most once, and once as soon as the request has been dequeued *)
(* (but for the request the batcher holds while its Tso call runs): by the *)
(* batch that took it or by Close's drain, never both, and Close drains    *)
(* only after both loops have exited.  Every write finds the one-element   *)
(* buffer empty and the request never written, so it does not block.       *)
(***************************************************************************)
C16_ExactlyOnce ==
    /\ [](\A r \in Calls :
            /\ Len(done[r]) <= doneCap
            /\ fin[r].by = 0 => done[r] = <<>>
            /\ fin[r].by # 0 <=> (InSeq(deqOrder, r) /\ r # first)
            /\ InSeq(tsoRequests, r) => (fin[r] = NoFin /\ ~InSeq(deqOrder, r))
            /\ fin[r].by >= 1 =>
                  /\ fin[r].by <= Len(batches)
                  /\ r \in Elems(batches[fin[r].by].snap)
            /\ fin[r].by = -1 =>
                  \A b \in 1..Len(batches) : r \notin Elems(batches[b].snap))
    /\ [](\A i, j \in 1..Len(deqOrder) : deqOrder[i] = deqOrder[j] => i = j)
    /\ [](closePc \in {"drain", "done"} =>
            tsPc = "exited" /\ leaderPc = "exited")
    /\ [](first # 0 => fin[first] = NoFin /\ done[first] = <<>>)
    /\ [](tsPc = "finish" \/ closePc = "drain" => HeadUnwritten)
    /\ [][\A r \in Calls :
            Len(done'[r]) > Len(done[r]) =>
                fin[r] = NoFin /\ done[r] = <<>> /\ fin'[r] # NoFin]_vars

\* Close has drained one request and a batch has completed another.
C16_Witness ==
    \E r1, r2 \in Calls :
        /\ fin[r1].by = -1 /\ done[r1] = <<errClosing>>
        /\ fin[r2].by >= 1
        /\ closePc = "done"

(***************************************************************************)
(* C17 as stated: once Close has closed quit, each loop exits the next     *)
(* time it is at its wait point: the batcher starts no new batch, even     *)
(* when requests are queued, and the leader loop starts no new resolution, *)
(* even when a recheck signal is pending.  The code does not have this     *)
(* property: its selects have no priority among their ready cases.         *)
(***************************************************************************)
C17_QuitObservedAtNextWake ==
    [][/\ (quit /\ tsPc = "select") => tsPc' \in {"select", "exited"}
       /\ (quit /\ leaderPc = "select") => leaderPc' \in {"select", "exited"}]_vars

(***************************************************************************)
(* C18: a leader recheck is eventually served and a failure does not stop  *)
(* the loop.  On a client that is not shut down, a signal pending in       *)
(* checkLeaderCh is eventually received by the leader loop, which then     *)
(* runs updateLeader to its return; a resolution in progress never removes *)
(* a signal, so a signal scheduled while it runs is still there when the   *)
(* loop is back at its select and is served by a further resolution; and   *)
(* the loop goes back to its select whatever updateLeader returned.        *)
(***************************************************************************)
C18_RecheckServed ==
    /\ (checkLeaderCh > 0) ~> (leaderPc = "update" /\ checkLeaderCh = 0)
    /\ (leaderPc = "update" /\ checkLeaderCh > 0)
          ~> (leaderPc = "select" /\ checkLeaderCh > 0 /\ updateRes.err # "none")
    /\ (leaderPc = "update") ~> (leaderPc = "select")
    /\ [][leaderPc = "update" => checkLeaderCh' >= checkLeaderCh]_vars
    /\ [][(leaderPc = "update" /\ leaderPc' # "update") =>
              /\ leaderPc' = "select"
              /\ updateRes'.err \in {"nil", "errNoLeader", "errDial"}]_vars
    /\ [](leaderPc # "exited")

\* The resolution before has returned an error; the loop is running a
\* further resolution, and a signal scheduled meanwhile is pending.
C18_Witness ==
    /\ updateRes.err \in {"errNoLeader", "errDial"}
    /\ leaderPc = "update"
    /\ checkLeaderCh = 1

(***************************************************************************)
(* C19 as stated: one batch failure, one recheck.  When one failed batch   *)
(* delivers its error to its N waiting callers, the N failures together    *)
(* raise the recheck signal once: after a caller of the batch has          *)
(* scheduled the recheck and the leader loop has received the signal, no   *)
(* caller of that same batch raises the signal again.  The code does not   *)
(* do this for every interleaving with the leader loop.                    *)
(***************************************************************************)
C19_OneRecheckPerBatch ==
    [][(/\ Len(batches) = 1 /\ Len(batches') = 1
        /\ BatchFailed(1)
        /\ scheduled # {}
        /\ checkLeaderCh = 0)
       => checkLeaderCh' = 0]_vars

(***************************************************************************)
(* C19, amended: when one failed batch delivers its error to its N waiting *)
(* callers, each of them invokes scheduleCheckLeader; the first invocation *)
(* raises the signal, a signal is raised by an invocation only, an         *)
(* invocation made while a signal is pending adds none, and at most one    *)
(* signal is pending at any time.  So the batch causes at least one and at *)
(* most N resolutions: one when all N invoke before the leader loop        *)
(* receives the signal, one more for every invocation made after the loop  *)
(* received the signal before.                                             *)
(***************************************************************************)
C19_BetweenOneAndNRechecks ==
    /\ [](checkLeaderCh <= checkLeaderChCap)
    /\ [](\A r \in Calls :
            (pc[r] = "returned" /\ ret[r].err \in {errRPC, errTSOLength})
                => r \in scheduled)
    /\ [][(scheduled = {} /\ scheduled' # {}) =>
              (checkLeaderCh = 0 /\ checkLeaderCh' = 1)]_vars
    /\ [][checkLeaderCh' > checkLeaderCh => scheduled' # scheduled]_vars
    /\ [][scheduled' # scheduled =>
              /\ checkLeaderCh' = checkLeaderChCap
              /\ Cardinality(scheduled') = Cardinality(scheduled) + 1]_vars

\* Two callers of one failed batch: the first scheduled the recheck, the
\* leader loop received the signal and runs updateLeader, and the second
\* caller's failure has raised the signal again.
C19_Witness ==
    \E a, b \in scheduled :
        /\ a # b
        /\ Len(batches) = 1
        /\ BatchFailed(1)
        /\ fin[a].by = 1 /\ fin[b].by = 1
        /\ leaderPc = "update"
        /\ checkLeaderCh = 1

(***************************************************************************)
(* C20: the consumer never blocks while it collects its batch.  From the   *)
(* length snapshot to the last dequeue of the batch, the queue holds at    *)
(* least the snapshot's requests that are still to be dequeued, on the     *)
(* success path and on the failure path, whatever the producers and Close  *)
(* do; so whenever the batcher is about to dequeue one of them the queue   *)
(* is not empty and its step is enabled, and the batcher is suspended      *)
(* only at its select or inside the Tso call.                              *)
(***************************************************************************)
C20_NoBlockCollecting ==
    /\ tsPc = "rpc" => Len(tsoRequests) >= pendingCount
    /\ tsPc = "finish" =>
          /\ tsI < pendingCount
          /\ Len(tsoRequests) >= pendingCount - tsI
          /\ tsoRequests # <<>>
          /\ ENABLED TsFinishNext
    /\ tsPc = "snapshot" => ENABLED TsSnapshot
    /\ tsPc \in {"finish", "rpc", "snapshot"} => closePc \in {"idle", "wait"}

\* The batcher collects a failed batch of two while Close waits for it and
\* the caller of the request it is about to dequeue has gone.
C20_Witness ==
    /\ tsPc = "finish"
    /\ tsErr # "nil"
    /\ closePc = "wait"
    /\ pendingCount = 1
    /\ Cancelled(Head(tsoRequests))

=============================================================================
